---- MODULE Spec2Model ----
(***************************************************************************)
(* FormControlName (reactive forms leaf directive): one directive instance *)
(* and the collaborators it calls (the parent form directive, the value    *)
(* accessor, the ngModelChange emitter).  Every lifecycle method is one    *)
(* action; collaborator calls are counted in `calls` so that properties    *)
(* about "is called / is never called" are state properties.               *)
(***************************************************************************)
EXTENDS Integers, Sequences, FiniteSets, TLC

\* Number of lifecycle calls explored on one instance.
MaxOps == 4

----------------------------------------------------------------------------
(* JavaScript values, as far as the identity check can tell them apart.    *)

Undefined == [type |-> "undefined", val |-> "undefined"]
NaNValue == [type |-> "number", val |-> "NaN"]

Values ==
  { Undefined,
    NaNValue,
    [type |-> "number", val |-> "1"] }

\* the values looseIdentical is applied to on its own: Values and one or two
\* more of every JavaScript type (val of an object is its reference)
JSValues ==
  Values \cup
  { [type |-> "object",  val |-> "null"],
    [type |-> "object",  val |-> "ref1"],
    [type |-> "object",  val |-> "ref2"],
    [type |-> "number",  val |-> "0"],
    [type |-> "number",  val |-> "-0"],
    [type |-> "string",  val |-> "NaN"],
    [type |-> "string",  val |-> "1"],
    [type |-> "boolean", val |-> "true"],
    [type |-> "boolean", val |-> "false"] }

typeof(a) == a.type

\* global isNaN: the argument is coerced to a number first (undefined, a
\* non-numeric string and a plain object coerce to NaN; null, booleans and
\* numeric strings do not)
isNaN(a) ==
  \/ a.type = "undefined"
  \/ a.val = "NaN"
  \/ (a.type = "object" /\ a.val # "null")

\* a === b : NaN is the one value that is not identical to itself, and the
\* two zeros are identical to each other
StrictEquals(a, b) ==
  \/ a = b /\ ~(a.type = "number" /\ a.val = "NaN")
  \/ (a.type = "number" /\ b.type = "number" /\ {a.val, b.val} \subseteq {"0", "-0"})

looseIdentical_noTypeCheck(a, b) ==
  \/ StrictEquals(a, b)
  \/ (isNaN(a) /\ isNaN(b))

looseIdentical(a, b) ==
  \/ StrictEquals(a, b)
  \/ (typeof(a) = "number" /\ typeof(b) = "number" /\ isNaN(a) /\ isNaN(b))

----------------------------------------------------------------------------
(* The injected parent container.                                          *)

NoError == "none"

\* kind: the concrete class of the parent; form: whether parent.formDirective
\* is non-null; path: parent.path
Parents ==
  { [kind |-> "null",               form |-> FALSE, path |-> << >>],
    [kind |-> "FormGroupDirective", form |-> TRUE,  path |-> << >>],
    [kind |-> "FormGroupName",      form |-> TRUE,  path |-> <<"g">>],
    [kind |-> "FormGroupName",      form |-> FALSE, path |-> <<"g">>],
    [kind |-> "FormArrayName",      form |-> TRUE,  path |-> <<"arr">>],
    [kind |-> "NgModelGroup",       form |-> TRUE,  path |-> <<"g">>],
    [kind |-> "NgForm",             form |-> TRUE,  path |-> << >>] }

\* p instanceof cls
instanceof(p, cls) ==
  CASE cls = "FormGroupName"              -> p.kind = "FormGroupName"
    [] cls = "AbstractFormGroupDirective" -> p.kind \in {"FormGroupName", "NgModelGroup"}
    [] cls = "FormGroupDirective"         -> p.kind = "FormGroupDirective"
    [] cls = "FormArrayName"              -> p.kind = "FormArrayName"
    [] OTHER                              -> FALSE

Names == {"a", "b"}

\* value accessors: with and without the optional setDisabledState method
ValueAccessors == { [setDisabledState |-> TRUE], [setDisabledState |-> FALSE] }

UnsetControl == [set |-> FALSE, disabled |-> FALSE]

\* a validator list as injected into the constructor: absent (null), or a
\* list of validators
AbsentList == [absent |-> TRUE, items |-> << >>]

InjectedLists ==
  { AbsentList,
    [absent |-> FALSE, items |-> << >>],
    [absent |-> FALSE, items |-> <<"required">>],
    [absent |-> FALSE, items |-> <<"required", "minLength">>] }

\* validators || []
RawList(list) == IF list.absent THEN << >> ELSE list.items

\* a composed validator: null, or one function running the list in order
NullFn == [isNull |-> TRUE, of |-> << >>]

\* composeValidators(list) / composeAsyncValidators(list)
composeValidators(list) ==
  IF Len(list) = 0 THEN NullFn ELSE [isNull |-> FALSE, of |-> list]

composeAsyncValidators(list) ==
  IF Len(list) = 0 THEN NullFn ELSE [isNull |-> FALSE, of |-> list]

\* what the collaborators do during one _setUpControl: addControl throws, or
\* returns an enabled control, or returns a disabled control and
\* setDisabledState (when it is called) returns or throws
SetUpOutcomes == {"addThrows", "enabled", "disabled", "disabledThrows"}

----------------------------------------------------------------------------
VARIABLES
  _parent,        \* this._parent
  valueAccessor,  \* this.valueAccessor
  name,           \* @Input('formControlName') name
  model,          \* this.model (input)
  viewModel,      \* this.viewModel
  control,        \* this.control
  _added,         \* this._added
  registered,     \* the parent form holds this directive (addControl / removeControl)
  regPath,        \* path at the moment _added became true
  calls,          \* number of calls made to each collaborator
  nOps,           \* lifecycle calls so far
  changed,        \* ngOnChanges has run at least once
  destroyed,      \* ngOnDestroy has run at least once
  mountRaised,    \* some ngOnChanges raised inside _setUpControl
  last,           \* the last lifecycle call: inputs and outcome
  injected,       \* the validator lists the constructor was given
  _rawValidators,       \* this._rawValidators
  _rawAsyncValidators,  \* this._rawAsyncValidators
  probe           \* the last application of a helper or read of a getter, and its result

vars == << _parent, valueAccessor, name, model, viewModel, control, _added,
           registered, regPath, calls, nOps, changed, destroyed, mountRaised, last,
           injected, _rawValidators, _rawAsyncValidators, probe >>

NoCalls ==
  [addControl |-> 0, updateModel |-> 0, removeControl |-> 0,
   setDisabledState |-> 0, emit |-> 0]

NoProbe == [fn |-> "none"]

NoLast ==
  [op |-> "constructor", prevOp |-> "none", raised |-> NoError, added0 |-> FALSE,
   hasModel |-> FALSE, firstChange |-> FALSE, value |-> Undefined, same |-> FALSE,
   push |-> [called |-> FALSE, value |-> Undefined, viewModel |-> Undefined,
             added |-> FALSE]]

----------------------------------------------------------------------------
(* Getters.                                                                *)

\* controlPath(name, parent): the parent's path followed by the name
controlPath(n, parent) == Append(parent.path, n)

path_cachedAtRegistration == IF _added THEN regPath ELSE controlPath(name, _parent)

path == controlPath(name, _parent)

validator_neverNull == [isNull |-> FALSE, of |-> _rawValidators]

validator == composeValidators(_rawValidators)

asyncValidator == composeAsyncValidators(_rawAsyncValidators)

\* this._parent ? this._parent.formDirective : null
formDirective ==
  IF _parent.kind # "null"
  THEN (IF _parent.form THEN "form" ELSE "null")
  ELSE "null"

----------------------------------------------------------------------------
(* Private helpers of the directive.                                       *)

_checkParentType_noElseBranch ==
  IF ~instanceof(_parent, "FormGroupName") /\ instanceof(_parent, "AbstractFormGroupDirective")
  THEN "ngModelGroupException"
  ELSE NoError

_checkParentType_sameError ==
  IF ~instanceof(_parent, "FormGroupName") /\ instanceof(_parent, "AbstractFormGroupDirective")
  THEN "controlParentException"
  ELSE IF /\ ~instanceof(_parent, "FormGroupName")
          /\ ~instanceof(_parent, "FormGroupDirective")
          /\ ~instanceof(_parent, "FormArrayName")
       THEN "controlParentException"
       ELSE NoError

\* the error _checkParentType raises, NoError when it returns
_checkParentType ==
  IF ~instanceof(_parent, "FormGroupName") /\ instanceof(_parent, "AbstractFormGroupDirective")
  THEN "ngModelGroupException"
  ELSE IF /\ ~instanceof(_parent, "FormGroupName")
          /\ ~instanceof(_parent, "FormGroupDirective")
          /\ ~instanceof(_parent, "FormArrayName")
       THEN "controlParentException"
       ELSE NoError

\* result record of _setUpControl: the fields it leaves behind, the error it
\* raised (NoError when it returned) and the collaborator calls it made
SetUpResult(err, c, added, reg, nAdd, nDis) ==
  [raised |-> err, control |-> c, _added |-> added, registered |-> reg,
   addControl |-> nAdd, setDisabledState |-> nDis]

_setUpControl_flagNeverSet(outcome) ==
  IF _checkParentType # NoError
  THEN SetUpResult(_checkParentType, control, _added, registered, 0, 0)
  ELSE IF formDirective = "null"
  THEN SetUpResult("TypeError", control, _added, registered, 0, 0)
  ELSE IF outcome = "addThrows"
  THEN SetUpResult("addControlError", control, _added, registered, 1, 0)
  ELSE LET c == [set |-> TRUE, disabled |-> (outcome # "enabled")] IN
       IF c.disabled /\ valueAccessor.setDisabledState
       THEN IF outcome = "disabledThrows"
            THEN SetUpResult("setDisabledStateError", c, _added, TRUE, 1, 1)
            ELSE SetUpResult(NoError, c, _added, TRUE, 1, 1)
       ELSE SetUpResult(NoError, c, _added, TRUE, 1, 0)

_setUpControl_disablesAlways(outcome) ==
  IF _checkParentType # NoError
  THEN SetUpResult(_checkParentType, control, _added, registered, 0, 0)
  ELSE IF formDirective = "null"
  THEN SetUpResult("TypeError", control, _added, registered, 0, 0)
  ELSE IF outcome = "addThrows"
  THEN SetUpResult("addControlError", control, _added, registered, 1, 0)
  ELSE LET c == [set |-> TRUE, disabled |-> (outcome # "enabled")] IN
       IF valueAccessor.setDisabledState
       THEN IF outcome = "disabledThrows"
            THEN SetUpResult("setDisabledStateError", c, _added, TRUE, 1, 1)
            ELSE SetUpResult(NoError, c, TRUE, TRUE, 1, 1)
       ELSE SetUpResult(NoError, c, TRUE, TRUE, 1, 0)

_setUpControl_flagBeforeAdd(outcome) ==
  IF _checkParentType # NoError
  THEN SetUpResult(_checkParentType, control, _added, registered, 0, 0)
  ELSE IF formDirective = "null"
  THEN SetUpResult("TypeError", control, TRUE, registered, 0, 0)
  ELSE IF outcome = "addThrows"
  THEN SetUpResult("addControlError", control, TRUE, registered, 1, 0)
  ELSE LET c == [set |-> TRUE, disabled |-> (outcome # "enabled")] IN
       IF c.disabled /\ valueAccessor.setDisabledState
       THEN IF outcome = "disabledThrows"
            THEN SetUpResult("setDisabledStateError", c, TRUE, TRUE, 1, 1)
            ELSE SetUpResult(NoError, c, TRUE, TRUE, 1, 1)
       ELSE SetUpResult(NoError, c, TRUE, TRUE, 1, 0)

_setUpControl(outcome) ==
  IF _checkParentType # NoError
  THEN SetUpResult(_checkParentType, control, _added, registered, 0, 0)
  ELSE IF formDirective = "null"
  THEN SetUpResult("TypeError", control, _added, registered, 0, 0)
  ELSE IF outcome = "addThrows"
  THEN SetUpResult("addControlError", control, _added, registered, 1, 0)
  ELSE LET c == [set |-> TRUE, disabled |-> (outcome # "enabled")] IN
       IF c.disabled /\ valueAccessor.setDisabledState
       THEN IF outcome = "disabledThrows"
            THEN SetUpResult("setDisabledStateError", c, _added, TRUE, 1, 1)
            ELSE SetUpResult(NoError, c, TRUE, TRUE, 1, 1)
       ELSE SetUpResult(NoError, c, TRUE, TRUE, 1, 0)

\* the `changes` argument of ngOnChanges, as far as the directive reads it:
\* whether it has a 'model' entry, and that entry's currentValue / firstChange
NoModelChange == [hasModel |-> FALSE, currentValue |-> Undefined, firstChange |-> FALSE]

Changes ==
  {NoModelChange} \cup
  [hasModel : {TRUE}, currentValue : Values, firstChange : BOOLEAN]

\* isPropertyUpdated(changes, viewModel)
isPropertyUpdated(changes, vm) ==
  IF ~changes.hasModel THEN FALSE
  ELSE IF changes.firstChange THEN TRUE
  ELSE ~looseIdentical(vm, changes.currentValue)

\* result record of the second statement of ngOnChanges: the cache it leaves,
\* the updateModel calls it makes, and for a call its value argument and the
\* viewModel the directive holds while updateModel runs
PushResult(cache, n, value, seen) ==
  [viewModel |-> cache, updateModel |-> n, value |-> value, seen |-> seen]

NoPush(vm) == PushResult(vm, 0, Undefined, Undefined)

ngOnChanges_push_staleCache(changes, m, vm) ==
  IF isPropertyUpdated(changes, vm)
  THEN PushResult(vm, 1, m, vm)
  ELSE NoPush(vm)

ngOnChanges_push_callFirst(changes, m, vm) ==
  IF isPropertyUpdated(changes, vm)
  THEN PushResult(m, 1, m, vm)
  ELSE NoPush(vm)

\* second statement of ngOnChanges, given this.model = m and
\* this.viewModel = vm: the cache is assigned, then updateModel is called
ngOnChanges_push(changes, m, vm) ==
  IF isPropertyUpdated(changes, vm)
  THEN PushResult(m, 1, m, m)
  ELSE NoPush(vm)

----------------------------------------------------------------------------
(* Lifecycle.                                                              *)

constructor(validators, asyncValidators) ==
  /\ injected = [validators |-> validators, asyncValidators |-> asyncValidators]
  /\ _rawValidators = RawList(validators)
  /\ _rawAsyncValidators = RawList(asyncValidators)
  /\ _parent \in Parents
  /\ valueAccessor \in ValueAccessors
  /\ name \in Names
  /\ model = Undefined
  /\ viewModel = Undefined
  /\ control = UnsetControl
  /\ _added = FALSE
  /\ registered = FALSE
  /\ regPath = << >>
  /\ calls = NoCalls
  /\ nOps = 0
  /\ changed = FALSE
  /\ destroyed = FALSE
  /\ mountRaised = FALSE
  /\ last = NoLast
  /\ probe = NoProbe

\* a directive without validators
Init == constructor(AbsentList, AbsentList)

\* The framework assigns the changed inputs, then calls ngOnChanges(changes).
ngOnChanges(newName, changes, outcome) ==
  LET m  == IF changes.hasModel THEN changes.currentValue ELSE model
      su == IF ~_added
            THEN _setUpControl(outcome)
            ELSE SetUpResult(NoError, control, _added, registered, 0, 0)
      pu == IF su.raised = NoError
            THEN ngOnChanges_push(changes, m, viewModel)
            ELSE NoPush(viewModel)
  IN
  /\ nOps < MaxOps
  /\ (_added => outcome = "enabled")  \* the outcome is not consulted once added
  /\ name' = newName
  /\ model' = m
  /\ control' = su.control
  /\ _added' = su._added
  /\ registered' = su.registered
  /\ regPath' = IF ~_added /\ su._added THEN controlPath(newName, _parent) ELSE regPath
  /\ viewModel' = pu.viewModel
  /\ calls' = [calls EXCEPT !.addControl = @ + su.addControl,
                            !.setDisabledState = @ + su.setDisabledState,
                            !.updateModel = @ + pu.updateModel]
  /\ nOps' = nOps + 1
  /\ changed' = TRUE
  /\ mountRaised' = (mountRaised \/ su.raised # NoError)
  /\ last' = [op |-> "ngOnChanges", prevOp |-> last.op, raised |-> su.raised,
              added0 |-> _added, hasModel |-> changes.hasModel,
              firstChange |-> changes.firstChange, value |-> changes.currentValue,
              same |-> looseIdentical(viewModel, changes.currentValue),
              push |-> [called |-> pu.updateModel = 1, value |-> pu.value,
                        viewModel |-> pu.seen,
                        added |-> (pu.updateModel = 1 /\ su._added)]]
  /\ UNCHANGED << probe, injected, _rawValidators, _rawAsyncValidators,
                  _parent, valueAccessor, destroyed >>

ngOnDestroy_once ==
  /\ nOps < MaxOps
  /\ registered' = IF formDirective # "null" THEN FALSE ELSE registered
  /\ calls' = [calls EXCEPT !.removeControl =
                              @ + (IF formDirective # "null" /\ ~destroyed THEN 1 ELSE 0)]
  /\ nOps' = nOps + 1
  /\ destroyed' = TRUE
  /\ last' = [NoLast EXCEPT !.op = "ngOnDestroy", !.prevOp = last.op,
                            !.added0 = _added]
  /\ UNCHANGED << probe, injected, _rawValidators, _rawAsyncValidators,
                  _parent, valueAccessor, name, model, viewModel, control, _added,
                  regPath, changed, mountRaised >>

ngOnDestroy_onlyIfAdded ==
  /\ nOps < MaxOps
  /\ registered' = IF formDirective # "null" /\ _added THEN FALSE ELSE registered
  /\ calls' = [calls EXCEPT !.removeControl =
                              @ + (IF formDirective # "null" /\ _added THEN 1 ELSE 0)]
  /\ nOps' = nOps + 1
  /\ destroyed' = TRUE
  /\ last' = [NoLast EXCEPT !.op = "ngOnDestroy", !.prevOp = last.op,
                            !.added0 = _added]
  /\ UNCHANGED << probe, injected, _rawValidators, _rawAsyncValidators,
                  _parent, valueAccessor, name, model, viewModel, control, _added,
                  regPath, changed, mountRaised >>

ngOnDestroy ==
  /\ nOps < MaxOps
  /\ registered' = IF formDirective # "null" THEN FALSE ELSE registered
  /\ calls' = [calls EXCEPT !.removeControl = @ + (IF formDirective # "null" THEN 1 ELSE 0)]
  /\ nOps' = nOps + 1
  /\ destroyed' = TRUE
  /\ last' = [NoLast EXCEPT !.op = "ngOnDestroy", !.prevOp = last.op,
                            !.added0 = _added]
  /\ UNCHANGED << probe, injected, _rawValidators, _rawAsyncValidators,
                  _parent, valueAccessor, name, model, viewModel, control, _added,
                  regPath, changed, mountRaised >>

viewToModelUpdate_noCache(newValue) ==
  /\ nOps < MaxOps
  /\ viewModel' = viewModel
  /\ calls' = [calls EXCEPT !.emit = @ + 1]
  /\ nOps' = nOps + 1
  /\ last' = [NoLast EXCEPT !.op = "viewToModelUpdate", !.prevOp = last.op,
                            !.added0 = _added, !.value = newValue,
                            !.same = looseIdentical(viewModel, newValue)]
  /\ UNCHANGED << probe, injected, _rawValidators, _rawAsyncValidators,
                  _parent, valueAccessor, name, model, control, _added, registered,
                  regPath, changed, destroyed, mountRaised >>

viewToModelUpdate_dedup(newValue) ==
  /\ nOps < MaxOps
  /\ viewModel' = newValue
  /\ calls' = [calls EXCEPT !.emit = @ + (IF looseIdentical(viewModel, newValue) THEN 0 ELSE 1)]
  /\ nOps' = nOps + 1
  /\ last' = [NoLast EXCEPT !.op = "viewToModelUpdate", !.prevOp = last.op,
                            !.added0 = _added, !.value = newValue,
                            !.same = looseIdentical(viewModel, newValue)]
  /\ UNCHANGED << probe, injected, _rawValidators, _rawAsyncValidators,
                  _parent, valueAccessor, name, model, control, _added, registered,
                  regPath, changed, destroyed, mountRaised >>

viewToModelUpdate(newValue) ==
  /\ nOps < MaxOps
  /\ viewModel' = newValue
  /\ calls' = [calls EXCEPT !.emit = @ + 1]
  /\ nOps' = nOps + 1
  /\ last' = [NoLast EXCEPT !.op = "viewToModelUpdate", !.prevOp = last.op,
                            !.added0 = _added, !.value = newValue,
                            !.same = looseIdentical(viewModel, newValue)]
  /\ UNCHANGED << probe, injected, _rawValidators, _rawAsyncValidators,
                  _parent, valueAccessor, name, model, control, _added, registered,
                  regPath, changed, destroyed, mountRaised >>

Next ==
  \/ \E newName \in Names, changes \in Changes, outcome \in SetUpOutcomes :
        ngOnChanges(newName, changes, outcome)
  \/ \E newValue \in Values : viewToModelUpdate(newValue)
  \/ ngOnDestroy

Spec == Init /\ [][Next]_vars

----------------------------------------------------------------------------
(* looseIdentical on its own: applied to every pair of JSValues.           *)

CallLooseIdentical(a, b) ==
  /\ probe' = [fn |-> "looseIdentical", a |-> a, b |-> b, result |-> looseIdentical(a, b)]
  /\ UNCHANGED << _parent, valueAccessor, name, model, viewModel, control, _added,
                  registered, regPath, calls, nOps, changed, destroyed, mountRaised, last,
                  injected, _rawValidators, _rawAsyncValidators >>

NextIdentity == \E a \in JSValues, b \in JSValues : CallLooseIdentical(a, b)

SpecIdentity == Init /\ [][NextIdentity]_vars

----------------------------------------------------------------------------
(* The validator getters: directives constructed with every pair of        *)
(* injected lists, and reads of the two getters.                           *)

InitValidators ==
  \E validators \in InjectedLists, asyncValidators \in InjectedLists :
    constructor(validators, asyncValidators)

ReadValidator ==
  /\ probe' = [fn |-> "validator", result |-> validator]
  /\ UNCHANGED << _parent, valueAccessor, name, model, viewModel, control, _added,
                  registered, regPath, calls, nOps, changed, destroyed, mountRaised, last,
                  injected, _rawValidators, _rawAsyncValidators >>

ReadAsyncValidator ==
  /\ probe' = [fn |-> "asyncValidator", result |-> asyncValidator]
  /\ UNCHANGED << _parent, valueAccessor, name, model, viewModel, control, _added,
                  registered, regPath, calls, nOps, changed, destroyed, mountRaised, last,
                  injected, _rawValidators, _rawAsyncValidators >>

NextValidators == ReadValidator \/ ReadAsyncValidator

SpecValidators == InitValidators /\ [][NextValidators]_vars

TypeOK ==
  /\ _parent \in Parents
  /\ valueAccessor \in ValueAccessors
  /\ name \in Names
  /\ model \in Values
  /\ viewModel \in Values
  /\ control \in [set : BOOLEAN, disabled : BOOLEAN]
  /\ _added \in BOOLEAN
  /\ registered \in BOOLEAN
  /\ nOps \in 0..MaxOps

----------------------------------------------------------------------------
(* Vocabulary of the properties.                                           *)

ValidKind == _parent.kind \in {"FormGroupName", "FormGroupDirective", "FormArrayName"}
ValidParent == ValidKind /\ _parent.form
ParentErrors == {"ngModelGroupException", "controlParentException"}

\* the step is one call of the named lifecycle method
IsCall(op) == nOps' = nOps + 1 /\ last'.op = op

DirectiveFields ==
  << _parent, valueAccessor, name, model, viewModel, control, _added,
     _rawValidators, _rawAsyncValidators >>

----------------------------------------------------------------------------
\* C1: with a valid parent and no raise, addControl has been called exactly
\* once as soon as ngOnChanges has run, and not at all before (construction
\* calls nothing); no later ngOnChanges, viewToModelUpdate or ngOnDestroy
\* adds another call.
C1_ExactlyOnceLazyRegistration ==
  (ValidParent /\ ~mountRaised) =>
    calls.addControl = (IF changed THEN 1 ELSE 0)

C1_Witness ==
  /\ ValidParent /\ ~mountRaised
  /\ nOps = MaxOps /\ destroyed /\ calls.emit >= 1
  /\ last.op = "ngOnChanges" /\ last.added0
  /\ calls.addControl = 1

\* C2: a detection pass right after viewToModelUpdate(v) on an added
\* directive, reporting the model changed (not a first change) to a value
\* identical to v, calls updateModel zero times and emits nothing.
C2_NoEchoAfterViewUpdate ==
  [][ ( /\ last.op = "viewToModelUpdate" /\ _added
        /\ IsCall("ngOnChanges")
        /\ last'.hasModel /\ ~last'.firstChange
        /\ looseIdentical(last.value, last'.value) )
      => ( /\ calls'.updateModel = calls.updateModel
           /\ calls'.emit = calls.emit
           /\ viewModel' = viewModel ) ]_vars

C2_Witness ==
  /\ last.op = "ngOnChanges" /\ last.prevOp = "viewToModelUpdate"
  /\ last.added0 /\ last.hasModel /\ ~last.firstChange /\ last.same
  /\ viewModel = NaNValue
  /\ calls.emit = 1 /\ calls.updateModel = 0

\* C3: a detection pass that returns and sees a model value not identical to
\* the cache calls updateModel exactly once and sets the cache to that value;
\* a pass whose changes carry no model entry, or carry (not as a first
\* change) a value identical to the cache, pushes nothing and leaves the
\* cache alone; no pass emits the ngModelChange event.
C3_ModelPushOnce ==
  [][ (IsCall("ngOnChanges") /\ last'.raised = NoError)
      => /\ calls'.emit = calls.emit
         /\ (last'.hasModel /\ ~looseIdentical(viewModel, last'.value))
              => ( /\ calls'.updateModel = calls.updateModel + 1
                   /\ viewModel' = last'.value )
         /\ ( \/ ~last'.hasModel
              \/ (~last'.firstChange /\ looseIdentical(viewModel, last'.value)) )
              => ( /\ calls'.updateModel = calls.updateModel
                   /\ viewModel' = viewModel ) ]_vars

C3_Witness ==
  /\ last.op = "ngOnChanges" /\ last.prevOp = "ngOnChanges"
  /\ last.added0 /\ ~last.hasModel
  /\ viewModel = [type |-> "number", val |-> "1"]
  /\ calls.updateModel = 1 /\ calls.emit = 0 /\ nOps = 2

C5_RenameGuard ==
  [][ (_added /\ IsCall("ngOnChanges"))
      => /\ (name' # name => last'.raised # NoError)
         /\ path' = regPath ]_vars

\* C6 as claimed: ngOnDestroy calls removeControl, and after it, on a
\* directive that had been added, viewToModelUpdate leaves the cache alone
\* and emits nothing, and ngOnChanges calls neither updateModel nor
\* addControl.
C6_InertAfterDestroy ==
  [][ /\ (IsCall("ngOnDestroy") /\ ValidParent)
          => calls'.removeControl = calls.removeControl + 1
      /\ (destroyed /\ _added /\ IsCall("viewToModelUpdate"))
          => (viewModel' = viewModel /\ calls'.emit = calls.emit)
      /\ (destroyed /\ _added /\ IsCall("ngOnChanges"))
          => ( /\ calls'.updateModel = calls.updateModel
               /\ calls'.addControl = calls.addControl ) ]_vars

\* C7 as claimed: a second ngOnDestroy right after the first raises nothing,
\* changes nothing in the directive or the parent form, and issues no
\* removeControl.
C7_Original_NoSecondRemoval ==
  [][ (last.op = "ngOnDestroy" /\ IsCall("ngOnDestroy"))
      => /\ last'.raised = NoError
         /\ UNCHANGED DirectiveFields
         /\ registered' = registered
         /\ calls' = calls ]_vars

\* C7 amended: a second ngOnDestroy right after the first raises nothing and
\* changes nothing in the directive or the parent form, but it does call
\* removeControl again whenever the parent has a form directive.
C7_SecondDestroyRepeatsRemoval ==
  [][ (last.op = "ngOnDestroy" /\ IsCall("ngOnDestroy"))
      => /\ last'.raised = NoError
         /\ UNCHANGED DirectiveFields
         /\ registered' = registered
         /\ calls' = [calls EXCEPT !.removeControl =
                         @ + (IF _parent.kind # "null" /\ _parent.form THEN 1 ELSE 0)] ]_vars

C7_Witness ==
  /\ last.op = "ngOnDestroy" /\ last.prevOp = "ngOnDestroy"
  /\ _added /\ ~registered
  /\ calls.addControl = 1 /\ calls.removeControl = 2

\* C8: under a parent that is none of FormGroupName, FormGroupDirective,
\* FormArrayName (or absent), every detection pass raises one of the two
\* parent errors, and addControl, setDisabledState and updateModel are never
\* called, control stays unset and _added stays false.
C8_ParentCheckedBeforeMutation ==
  ~ValidKind =>
    /\ calls.addControl = 0
    /\ calls.setDisabledState = 0
    /\ calls.updateModel = 0
    /\ control = UnsetControl
    /\ ~_added /\ ~registered
    /\ (last.op = "ngOnChanges" => last.raised \in ParentErrors)

C8_Witness ==
  /\ ~ValidKind
  /\ last.op = "ngOnChanges" /\ last.hasModel /\ last.firstChange
  /\ last.raised \in ParentErrors
  /\ calls.addControl = 0 /\ calls.updateModel = 0

\* C9: on a mounting pass the parent check has one outcome per parent kind:
\* FormGroupName, FormGroupDirective and FormArrayName raise no parent error,
\* NgModelGroup (an AbstractFormGroupDirective that is not a FormGroupName)
\* raises ngModelGroupException, anything else (another container, or no
\* parent) raises controlParentException.
C9_ParentErrorPerKind ==
  (last.op = "ngOnChanges" /\ ~last.added0) =>
    CASE ValidKind -> last.raised \notin ParentErrors
      [] _parent.kind = "NgModelGroup" -> last.raised = "ngModelGroupException"
      [] OTHER -> last.raised = "controlParentException"

C9_Witness ==
  /\ last.op = "ngOnChanges" /\ ~last.added0
  /\ _parent.kind = "NgModelGroup"
  /\ last.raised = "ngModelGroupException"
  /\ last.prevOp = "constructor"

\* C10 as claimed: once a detection pass has raised inside _setUpControl,
\* no later call makes another addControl call.
C10_NoRetryAfterMountError ==
  [][ mountRaised => calls'.addControl = calls.addControl ]_vars

\* C11 as claimed: once addControl has returned a control, setDisabledState
\* has been called exactly once if that control is disabled and never if it
\* is not.
C11_Original_DisabledAppliedOnce ==
  control.set => calls.setDisabledState = (IF control.disabled THEN 1 ELSE 0)

\* C11 amended: a mounting pass in which addControl returns a disabled
\* control calls setDisabledState(true) exactly once in that pass when the
\* value accessor implements setDisabledState, and not at all when it does
\* not; a pass in which addControl returns an enabled control or does not
\* return, a pass on an added directive, and every other lifecycle call make
\* no setDisabledState call.
C11_DisabledAppliedPerMount ==
  [][ nOps' = nOps + 1
      => calls'.setDisabledState - calls.setDisabledState =
           (IF /\ last'.op = "ngOnChanges" /\ ~_added
               /\ calls'.addControl = calls.addControl + 1
               /\ last'.raised \in {NoError, "setDisabledStateError"}
               /\ control'.disabled
               /\ valueAccessor.setDisabledState
            THEN 1 ELSE 0) ]_vars

C11_Witness ==
  /\ last.op = "ngOnChanges" /\ last.added0
  /\ control.disabled /\ valueAccessor.setDisabledState
  /\ ~mountRaised /\ nOps = 2
  /\ calls.setDisabledState = 1

\* C12: looseIdentical(a, b) is true exactly when a === b or a and b are both
\* the number NaN; it is reflexive and symmetric, and NaN is identical to no
\* other value.
C12_NaNIdentity ==
  probe.fn = "looseIdentical" =>
    /\ probe.result <=> ( \/ StrictEquals(probe.a, probe.b)
                          \/ (probe.a = NaNValue /\ probe.b = NaNValue) )
    /\ (probe.a = probe.b => probe.result)
    /\ probe.result = looseIdentical(probe.b, probe.a)
    /\ ((probe.a = NaNValue /\ probe.b # NaNValue) => ~probe.result)

C12_Witness ==
  /\ probe.fn = "looseIdentical"
  /\ probe.a = NaNValue /\ probe.b = NaNValue
  /\ probe.result
  /\ ~StrictEquals(probe.a, probe.b)

\* positions of another leaf binding: the path of its parent container and
\* its own name
OtherParentPaths == {p.path : p \in Parents} \cup { <<"a">>, <<"g", "a">> }
OtherNames == Names \cup {"g"}

C15_AddedFlagInvariant ==
  [][ /\ (~_added /\ _added')
          => ( /\ last'.op = "ngOnChanges"
               /\ calls'.addControl = calls.addControl + 1
               /\ control'.set )
      /\ _added => (_added' /\ control' = control) ]_vars

C15_Witness ==
  /\ _added /\ destroyed /\ last.op = "ngOnDestroy"
  /\ control = [set |-> TRUE, disabled |-> TRUE]
  /\ calls.addControl = 1 /\ calls.removeControl = 1

\* C16: whenever updateModel is called, _added is already true and the
\* directive's viewModel already is the value passed to updateModel; so
\* updateModel has only ever been called on an added directive.
C16_PushAfterSetupAndCache ==
  /\ last.push.called =>
       ( /\ last.op = "ngOnChanges"
         /\ last.push.added
         /\ last.push.viewModel = last.push.value
         /\ last.push.value = model )
  /\ calls.updateModel > 0 => _added

C16_Witness ==
  /\ last.op = "ngOnChanges" /\ ~last.added0 /\ ~last.firstChange
  /\ last.push.called /\ last.push.added
  /\ last.push.value = [type |-> "number", val |-> "1"]
  /\ viewModel = last.push.value

\* C17: every ngOnDestroy raises nothing and makes exactly one removeControl
\* call when the directive has a parent whose form directive is not null,
\* whether or not the directive was ever added, and no call at all
\* otherwise; it makes no other collaborator call.
C17_RemovalIffFormDirective ==
  [][ IsCall("ngOnDestroy")
      => /\ last'.raised = NoError
         /\ calls' = [calls EXCEPT !.removeControl =
                         @ + (IF _parent.kind # "null" /\ _parent.form THEN 1 ELSE 0)]
         /\ _added' = _added ]_vars

C17_Witness ==
  /\ last.op = "ngOnDestroy" /\ last.prevOp = "ngOnChanges"
  /\ ~_added /\ mountRaised /\ ~control.set
  /\ calls.addControl = 0 /\ calls.removeControl = 1

====
